---- MODULE Spec2Model ----
(***************************************************************************)
(* A model of two pieces of prefect:                                       *)
(*                                                                         *)
(*  - prefect/engine/executors/__init__.py: the module body that resolves  *)
(*    DEFAULT_EXECUTOR from prefect.config.engine.executor, run by the     *)
(*    threads of one process that import the package;                      *)
(*  - prefect/tasks/secrets/base.py: the constructors of SecretBase,       *)
(*    PrefectSecret and Secret, and PrefectSecret.run.                     *)
(*                                                                         *)
(* Python strings are sequences of one-character strings, so that          *)
(* str.split, str.join and str.format are computed and not assumed.        *)
(***************************************************************************)
EXTENDS Integers, Sequences, FiniteSets, TLC

VARIABLES
    config,            \* what reading prefect.config.engine.executor gives
    sys_modules,       \* the package in sys.modules: absent, initializing, loaded
    DEFAULT_EXECUTOR,  \* the module attribute
    cfg_exec,          \* module global, line 45
    module,            \* module global, lines 46-47
    cls_name,          \* module global, line 46
    pc,                \* per thread: where it is in importing / the module body
    observed,          \* per thread: the values its reads of DEFAULT_EXECUTOR gave
    warnings,          \* the warnings emitted by the module body, in order
    nobjects,          \* executor instances constructed so far in the process
    nresolutions,      \* how many times the module body was started
    call,              \* the latest constructor call of a secret task
    task,              \* the task object that call worked on
    ntasks,            \* task objects allocated so far
    handlers,          \* every SecretResultHandler created so far
    context,           \* prefect.context.secrets
    use_local_secrets, \* prefect.config.cloud.use_local_secrets
    run_state,         \* state of the task run of `task`
    retries,           \* retries the runner used for the task run
    last_run           \* what the latest call of PrefectSecret.run did

execVars == <<config, sys_modules, DEFAULT_EXECUTOR, cfg_exec, module, cls_name,
              pc, observed, warnings, nobjects, nresolutions>>
secretVars == <<call, task, ntasks, handlers, context, use_local_secrets,
                run_state, retries, last_run>>
vars == <<execVars, secretVars>>

(***************************************************************************)
(* Bounds of the model.                                                    *)
(***************************************************************************)
NThreads == 2
MaxCfgLen == 3
MaxTasks == 2
MaxRetries == 3

(***************************************************************************)
(* Python strings.                                                         *)
(***************************************************************************)
Chars == {"m", "K", "."}
Dot == "."

RECURSIVE StringsOfLen(_)
StringsOfLen(n) ==
    IF n = 0 THEN {<<>>}
    ELSE {Append(s, c) : s \in StringsOfLen(n - 1), c \in Chars}

Strings == UNION {StringsOfLen(n) : n \in 0..MaxCfgLen}

Front(s) == SubSeq(s, 1, Len(s) - 1)
Last(s) == s[Len(s)]

\* str.split(sep): the pieces between the separators; never an empty list.
RECURSIVE Split(_, _)
Split(s, sep) ==
    IF s = <<>> THEN << <<>> >>
    ELSE LET rest == Split(Tail(s), sep)
         IN IF Head(s) = sep
            THEN << <<>> >> \o rest
            ELSE << <<Head(s)>> \o Head(rest) >> \o Tail(rest)

\* sep.join(parts)
RECURSIVE Join(_, _)
Join(parts, sep) ==
    IF parts = <<>> THEN <<>>
    ELSE IF Len(parts) = 1 THEN parts[1]
    ELSE parts[1] \o <<sep>> \o Join(Tail(parts), sep)

(***************************************************************************)
(* prefect.config.engine.executor.  Reading it may raise (the entry or the *)
(* engine section is missing), or give a value that is no string, or give  *)
(* a string.                                                               *)
(***************************************************************************)
Unreadable == [kind |-> "unreadable", s |-> <<>>]
NoneCfg == [kind |-> "None", s |-> <<>>]
StrCfg(s) == [kind |-> "str", s |-> s]
ConfigValues == {Unreadable, NoneCfg} \cup {StrCfg(s) : s \in Strings}

\* str(value), as str.format renders it
Str(v) == IF v.kind = "str" THEN v.s ELSE <<"N", "o", "n", "e">>

\* "Could not import {}, using prefect.engine.executors.LocalExecutor instead.".format(arg)
FormatWarning(arg) ==
    [category |-> "UserWarning",
     text |-> <<"Could not import ", Str(arg),
                ", using prefect.engine.executors.LocalExecutor instead.">>]

(***************************************************************************)
(* Executor objects and threads.                                           *)
(***************************************************************************)
Threads == 1..NThreads
Unbound == [cls |-> "unbound", id |-> 0]
Instance(cls, id) == [cls |-> cls, id |-> id]
NoModule == [kind |-> "none", name |-> <<>>]
ModuleObject(name) == [kind |-> "module", name |-> name]
PartList(parts) == [kind |-> "list", name |-> parts]

\* importlib.import_module(name) can only succeed for an absolute dotted name
\* with no empty component
Importable(name) ==
    /\ name # <<>>
    /\ \A i \in 1..Len(Split(name, Dot)) : Split(name, Dot)[i] # <<>>

(***************************************************************************)
(* The secret-task side at rest (its operations follow further down).      *)
(***************************************************************************)
None == "None"
NoneValue == [type |-> "NoneType", secret_task |-> 0]
EmptyDict == [k \in {} |-> NoneValue]
NoCall == [cls |-> "none", args |-> <<>>, kwargs |-> EmptyDict]
NoTask == [id |-> 0, cls |-> "none", exc |-> None, created |-> {},
           task_init |-> FALSE, super_kwargs |-> EmptyDict, warned |-> <<>>]
NoRun == [name |-> None, outcome |-> "none", value |-> None, queried |-> FALSE]

(***************************************************************************)
(* prefect/engine/executors/__init__.py, run as the body of the package    *)
(* when a thread imports it.  The import system runs the body at most once *)
(* at a time (the module lock); a body that raises takes the package out   *)
(* of sys.modules again, and the exception reaches the importing thread.   *)
(***************************************************************************)
FreshNamespace ==
    /\ DEFAULT_EXECUTOR' = Unbound
    /\ cfg_exec' = NoneCfg
    /\ module' = NoModule
    /\ cls_name' = <<>>

\* an exception leaves the try block: control goes to the except clause
ToExcept(t) ==
    /\ pc' = [pc EXCEPT ![t] = "except"]
    /\ UNCHANGED <<config, sys_modules, DEFAULT_EXECUTOR, cfg_exec, module, cls_name,
                   observed, warnings, nobjects, nresolutions>>

\* an exception leaves the module body: the import statement raises
RaiseFromBody(t) ==
    /\ pc' = [pc EXCEPT ![t] = "raised"]
    /\ sys_modules' = "absent"
    /\ FreshNamespace
    /\ UNCHANGED <<config, observed, warnings, nobjects, nresolutions>>

\* `import prefect.engine.executors` (or `from ... import DEFAULT_EXECUTOR`)
ImportPackage(t) ==
    /\ pc[t] = "idle"
    /\ \/ /\ sys_modules = "loaded"
          /\ pc' = [pc EXCEPT ![t] = "imported"]
          /\ UNCHANGED <<sys_modules, DEFAULT_EXECUTOR, cfg_exec, module, cls_name,
                         nresolutions>>
       \/ /\ sys_modules = "absent"
          /\ sys_modules' = "initializing"
          /\ pc' = [pc EXCEPT ![t] = "L45"]
          /\ nresolutions' = nresolutions + 1
          /\ FreshNamespace
    /\ UNCHANGED <<config, observed, warnings, nobjects>>
    /\ UNCHANGED secretVars

\* line 45: cfg_exec = _prefect.config.engine.executor
ReadConfig(t) ==
    /\ pc[t] = "L45"
    /\ \/ /\ config = Unreadable
          /\ ToExcept(t)
       \/ /\ config # Unreadable
          /\ cfg_exec' = config
          /\ pc' = [pc EXCEPT ![t] = "L46"]
          /\ UNCHANGED <<config, sys_modules, DEFAULT_EXECUTOR, module, cls_name,
                         observed, warnings, nobjects, nresolutions>>
    /\ UNCHANGED secretVars

\* line 46: *module, cls_name = cfg_exec.split(".")
SplitConfig(t) ==
    /\ pc[t] = "L46"
    /\ \/ /\ cfg_exec.kind # "str"
          /\ ToExcept(t)
       \/ /\ cfg_exec.kind = "str"
          /\ LET parts == Split(cfg_exec.s, Dot)
             IN /\ module' = PartList(Front(parts))
                /\ cls_name' = Last(parts)
          /\ pc' = [pc EXCEPT ![t] = "L47"]
          /\ UNCHANGED <<config, sys_modules, DEFAULT_EXECUTOR, cfg_exec,
                         observed, warnings, nobjects, nresolutions>>
    /\ UNCHANGED secretVars

\* line 47: module = _import_module(".".join(module))
ImportModule(t) ==
    /\ pc[t] = "L47"
    /\ LET name == Join(module.name, Dot)
       IN \/ /\ ~Importable(name)
             /\ ToExcept(t)
          \/ /\ Importable(name)          \* no such module, or its import raises
             /\ ToExcept(t)
          \/ /\ Importable(name)
             /\ module' = ModuleObject(name)
             /\ pc' = [pc EXCEPT ![t] = "L48"]
             /\ UNCHANGED <<config, sys_modules, DEFAULT_EXECUTOR, cfg_exec, cls_name,
                            observed, warnings, nobjects, nresolutions>>
    /\ UNCHANGED secretVars

\* line 48: DEFAULT_EXECUTOR = getattr(module, cls_name)()
Instantiate(t) ==
    /\ pc[t] = "L48"
    /\ \/ ToExcept(t)                     \* no such attribute, or the call raises
       \/ /\ cls_name # <<>>
          /\ nobjects' = nobjects + 1
          /\ DEFAULT_EXECUTOR' = Instance("Configured", nobjects + 1)
          /\ pc' = [pc EXCEPT ![t] = "end"]
          /\ UNCHANGED <<config, sys_modules, cfg_exec, module, cls_name,
                         observed, warnings, nresolutions>>
    /\ UNCHANGED secretVars

\* Warn with the call of _warn left out
Warn_Silent(t) ==
    /\ pc[t] = "except"
    /\ config # Unreadable
    /\ pc' = [pc EXCEPT ![t] = "L55"]
    /\ UNCHANGED <<config, sys_modules, DEFAULT_EXECUTOR, cfg_exec, module,
                   cls_name, observed, warnings, nobjects, nresolutions>>
    /\ UNCHANGED secretVars

\* lines 49-54: except: _warn("...".format(_prefect.config.engine.executor))
Warn(t) ==
    /\ pc[t] = "except"
    /\ \/ /\ config = Unreadable          \* the argument of format raises again
          /\ RaiseFromBody(t)
       \/ /\ config # Unreadable
          /\ warnings' = Append(warnings, FormatWarning(config))
          /\ pc' = [pc EXCEPT ![t] = "L55"]
          /\ UNCHANGED <<config, sys_modules, DEFAULT_EXECUTOR, cfg_exec, module,
                         cls_name, observed, nobjects, nresolutions>>
    /\ UNCHANGED secretVars

\* Fallback with the LocalExecutor constructed but not bound to DEFAULT_EXECUTOR
Fallback_NoBind(t) ==
    /\ pc[t] = "L55"
    /\ nobjects' = nobjects + 1
    /\ pc' = [pc EXCEPT ![t] = "end"]
    /\ UNCHANGED <<config, sys_modules, DEFAULT_EXECUTOR, cfg_exec, module, cls_name,
                   observed, warnings, nresolutions>>
    /\ UNCHANGED secretVars

\* line 55: DEFAULT_EXECUTOR = LocalExecutor()
Fallback(t) ==
    /\ pc[t] = "L55"
    /\ nobjects' = nobjects + 1
    /\ DEFAULT_EXECUTOR' = Instance("LocalExecutor", nobjects + 1)
    /\ pc' = [pc EXCEPT ![t] = "end"]
    /\ UNCHANGED <<config, sys_modules, cfg_exec, module, cls_name,
                   observed, warnings, nresolutions>>
    /\ UNCHANGED secretVars

\* the end of the module body: the import statement returns
FinishImport(t) ==
    /\ pc[t] = "end"
    /\ sys_modules' = "loaded"
    /\ pc' = [pc EXCEPT ![t] = "imported"]
    /\ UNCHANGED <<config, DEFAULT_EXECUTOR, cfg_exec, module, cls_name,
                   observed, warnings, nobjects, nresolutions>>
    /\ UNCHANGED secretVars

\* a read of prefect.engine.executors.DEFAULT_EXECUTOR by code that imported it
ReadDefault(t) ==
    /\ pc[t] = "imported"
    /\ observed' = [observed EXCEPT ![t] = @ \cup {DEFAULT_EXECUTOR}]
    /\ UNCHANGED <<config, sys_modules, DEFAULT_EXECUTOR, cfg_exec, module, cls_name,
                   pc, warnings, nobjects, nresolutions>>
    /\ UNCHANGED secretVars

ExecutorsAtRest ==
    /\ config = NoneCfg
    /\ sys_modules = "absent"
    /\ DEFAULT_EXECUTOR = Unbound
    /\ cfg_exec = NoneCfg
    /\ module = NoModule
    /\ cls_name = <<>>
    /\ pc = [t \in Threads |-> "idle"]
    /\ observed = [t \in Threads |-> {}]
    /\ warnings = <<>>
    /\ nobjects = 0
    /\ nresolutions = 0

SecretsAtRest ==
    /\ call = NoCall
    /\ task = NoTask
    /\ ntasks = 0
    /\ handlers = {}
    /\ context = EmptyDict
    /\ use_local_secrets = FALSE
    /\ run_state = "none"
    /\ retries = 0
    /\ last_run = NoRun

ExecutorInit ==
    /\ config \in ConfigValues
    /\ sys_modules = "absent"
    /\ DEFAULT_EXECUTOR = Unbound
    /\ cfg_exec = NoneCfg
    /\ module = NoModule
    /\ cls_name = <<>>
    /\ pc = [t \in Threads |-> "idle"]
    /\ observed = [t \in Threads |-> {}]
    /\ warnings = <<>>
    /\ nobjects = 0
    /\ nresolutions = 0
    /\ SecretsAtRest

ExecutorNext ==
    \E t \in Threads :
        \/ ImportPackage(t)
        \/ ReadConfig(t)
        \/ SplitConfig(t)
        \/ ImportModule(t)
        \/ Instantiate(t)
        \/ Warn(t)
        \/ Fallback(t)
        \/ FinishImport(t)
        \/ ReadDefault(t)

ExecutorSpec == ExecutorInit /\ [][ExecutorNext]_vars

(***************************************************************************)
(* Properties of the default-executor resolution.                          *)
(***************************************************************************)

\* C1: resolving the default executor never raises to the importing code,
\* whatever the configuration is and whatever fails on the way; when a
\* failure was handled, DEFAULT_EXECUTOR is the LocalExecutor constructed last.
C1_ResolutionNeverRaises ==
    /\ \A t \in Threads : pc[t] # "raised"
    /\ (sys_modules = "loaded" /\ warnings # <<>>) =>
           DEFAULT_EXECUTOR = Instance("LocalExecutor", nobjects)

\* C4: a resolution that falls back to LocalExecutor has emitted exactly one
\* warning, whose text holds the configured value; a resolution that
\* instantiated the configured class has emitted none.
C4_OneWarningIffFallback ==
    /\ Len(warnings) <= 1
    /\ DEFAULT_EXECUTOR.cls = "LocalExecutor" =>
           /\ Len(warnings) = 1
           /\ warnings[1].category = "UserWarning"
           /\ warnings[1].text[2] = Str(config)
           /\ config.kind = "str" => warnings[1].text[2] = config.s
    /\ DEFAULT_EXECUTOR.cls = "Configured" => warnings = <<>>

C4_Witness ==
    /\ sys_modules = "loaded"
    /\ config.kind = "str"
    /\ Len(config.s) = MaxCfgLen
    /\ DEFAULT_EXECUTOR.cls = "LocalExecutor"
    /\ Len(warnings) = 1

\* C8: the resolution runs at most once in the process, and every read of the
\* default executor, by any thread, finds one and the same bound instance.
C8_ResolvedOnceBeforeReads ==
    /\ nresolutions <= 1
    /\ \A t \in Threads : Unbound \notin observed[t]
    /\ \A t, u \in Threads : Cardinality(observed[t] \cup observed[u]) <= 1

\* The part of C8 that does not count the runs: at most one instance is ever
\* bound, and every read finds it.
SingleDefaultInstance ==
    /\ nobjects <= 1
    /\ \A t \in Threads : observed[t] \subseteq {DEFAULT_EXECUTOR} \ {Unbound}

\* C9 as stated: until some thread has read the default executor, nothing has
\* been instantiated and no warning has been emitted.
C9_CreatedLazily ==
    (\A t \in Threads : observed[t] = {}) => (nobjects = 0 /\ warnings = <<>>)

\* C9 as amended: nothing is instantiated and no warning is emitted before the
\* package is first imported; once the package is loaded an instance has been
\* constructed and bound, read or not, so no read finds the default unbound.
C9_CreatedOnImport ==
    /\ nresolutions = 0 => (nobjects = 0 /\ warnings = <<>>)
    /\ sys_modules = "loaded" =>
           (DEFAULT_EXECUTOR # Unbound /\ DEFAULT_EXECUTOR.id = nobjects /\ nobjects >= 1)
    /\ \A t \in Threads : Unbound \notin observed[t]

C9_Witness ==
    /\ sys_modules = "loaded"
    /\ \A t \in Threads : observed[t] = {}
    /\ DEFAULT_EXECUTOR = Instance("LocalExecutor", 1)

(***************************************************************************)
(* prefect/tasks/secrets/base.py.  Python values: a dict is a function on  *)
(* the set of its keys; a result handler is a record of its type and, for  *)
(* a SecretResultHandler, the id of the task it is bound to.               *)
(***************************************************************************)
Names == {"a", "b"}
DefaultMaxRetries == 2
DefaultRetryDelay == 1

SecretResultHandler(secret_task) ==
    [type |-> "SecretResultHandler", secret_task |-> secret_task]
JSONResultHandler == [type |-> "JSONResultHandler", secret_task |-> 0]

\* bool(value): None is false, a handler object is true
Truthy(v) == v.type # "NoneType"

\* dict.get(k), d[k] = v, dict.setdefault(k, v), and the dict without k
Get(d, k) == IF k \in DOMAIN d THEN d[k] ELSE NoneValue
SetItem(d, k, v) == (k :> v) @@ d
SetDefault(d, k, v) == IF k \in DOMAIN d THEN d ELSE d @@ (k :> v)
Without(d, k) == [x \in DOMAIN d \ {k} |-> d[x]]

DeprecationWarning ==
    [category |-> "UserWarning",
     text |-> "The Secret task is deprecated and has been renamed PrefectSecret."]

\* what a constructor call did: the exception it raised (None: it returned),
\* the SecretResultHandlers it created, whether Task.__init__ was invoked and
\* with which keyword arguments, and the warnings it emitted
Raised(exc) ==
    [exc |-> exc, created |-> {}, task_init |-> FALSE,
     super_kwargs |-> EmptyDict, warned |-> <<>>]
Initialised(h, kwargs) ==
    [exc |-> None, created |-> {h}, task_init |-> TRUE,
     super_kwargs |-> kwargs, warned |-> <<>>]

\* SecretBase.__init__ with kwargs.setdefault in place of the assignment
SecretBaseInit_KeepsCallerHandler(self, kwargs) ==
    IF Truthy(Get(kwargs, "result_handler"))
    THEN Raised("ValueError")
    ELSE Initialised(SecretResultHandler(self),
                     SetDefault(kwargs, "result_handler", SecretResultHandler(self)))

\* SecretBase.__init__(self, **kwargs), lines 26-30
SecretBaseInit(self, kwargs) ==
    IF Truthy(Get(kwargs, "result_handler"))
    THEN Raised("ValueError")
    ELSE Initialised(SecretResultHandler(self),
                     SetItem(kwargs, "result_handler", SecretResultHandler(self)))

\* PrefectSecret.__init__ assigning the retry settings instead of setdefault
PrefectSecretInit_ForcesRetries(self, name, kwargs) ==
    LET kw1 == SetItem(kwargs, "name", name)
        kw2 == SetItem(kw1, "max_retries", DefaultMaxRetries)
        kw3 == SetItem(kw2, "retry_delay", DefaultRetryDelay)
    IN IF Truthy(Get(kw3, "result_handler"))
       THEN Raised("ValueError")
       ELSE Initialised(SecretResultHandler(self),
                        SetItem(kw3, "result_handler", SecretResultHandler(self)))

\* PrefectSecret.__init__ without the default for max_retries
PrefectSecretInit_NoRetryDefault(self, name, kwargs) ==
    LET kw1 == SetItem(kwargs, "name", name)
        kw3 == SetDefault(kw1, "retry_delay", DefaultRetryDelay)
    IN IF Truthy(Get(kw3, "result_handler"))
       THEN Raised("ValueError")
       ELSE Initialised(SecretResultHandler(self),
                        SetItem(kw3, "result_handler", SecretResultHandler(self)))

\* PrefectSecret.__init__ creating its handler before the check of the caller-supplied one
PrefectSecretInit_HandlerFirst(self, name, kwargs) ==
    LET kw1 == SetItem(kwargs, "name", name)
        kw2 == SetDefault(kw1, "max_retries", DefaultMaxRetries)
        kw3 == SetDefault(kw2, "retry_delay", DefaultRetryDelay)
    IN IF Truthy(Get(kw3, "result_handler"))
       THEN [Raised("ValueError") EXCEPT !.created = {SecretResultHandler(self)}]
       ELSE Initialised(SecretResultHandler(self),
                        SetItem(kw3, "result_handler", SecretResultHandler(self)))

\* PrefectSecret.__init__(self, name, **kwargs), lines 46-53
PrefectSecretInit(self, name, kwargs) ==
    LET kw1 == SetItem(kwargs, "name", name)
        kw2 == SetDefault(kw1, "max_retries", DefaultMaxRetries)
        kw3 == SetDefault(kw2, "retry_delay", DefaultRetryDelay)
    IN IF Truthy(Get(kw3, "result_handler"))
       THEN Raised("ValueError")
       ELSE Initialised(SecretResultHandler(self),
                        SetItem(kw3, "result_handler", SecretResultHandler(self)))

\* the call SecretBase(*args, **kw): the signature takes keywords only
CallSecretBase(self, args, kw) ==
    IF args # <<>> THEN Raised("TypeError") ELSE SecretBaseInit(self, kw)

\* the call PrefectSecret.__init__(self, *args, **kw): `name` is bound from the
\* one positional argument or from the keyword, never from both or neither
CallPrefectSecret(self, args, kw) ==
    IF Len(args) > 1 \/ (Len(args) = 1) = ("name" \in DOMAIN kw)
    THEN Raised("TypeError")
    ELSE IF Len(args) = 1
         THEN PrefectSecretInit(self, args[1], kw)
         ELSE PrefectSecretInit(self, kw["name"], Without(kw, "name"))

\* Secret.__init__(self, *args, **kwargs), lines 74-79
SecretInit(self, args, kwargs) ==
    LET r == CallPrefectSecret(self, args, kwargs)
    IN [r EXCEPT !.warned = <<DeprecationWarning>> \o r.warned]

(***************************************************************************)
(* Constructor calls.  The arguments a caller can pass.                    *)
(***************************************************************************)
Opt(k, S) == {EmptyDict} \cup {k :> v : v \in S}

\* a caller passes the name positionally ("a") or by keyword ("b"), or not at all
ArgLists == {<<>>, <<"a">>}

ResultHandlerValues == {NoneValue, JSONResultHandler} \cup handlers

KwargsValues ==
    {nm @@ rh @@ mr @@ rd :
        nm \in Opt("name", {"b"}),
        rh \in Opt("result_handler", ResultHandlerValues),
        mr \in Opt("max_retries", 0..MaxRetries),
        rd \in Opt("retry_delay", {5})}

Construct(cls, args, kwargs, result) ==
    /\ ntasks < MaxTasks
    /\ run_state = "none"          \* tasks are constructed before the flow runs
    /\ ntasks' = ntasks + 1
    /\ call' = [cls |-> cls, args |-> args, kwargs |-> kwargs]
    /\ task' = [id |-> ntasks + 1, cls |-> cls, exc |-> result.exc,
                created |-> result.created, task_init |-> result.task_init,
                super_kwargs |-> result.super_kwargs, warned |-> result.warned]
    /\ handlers' = handlers \cup result.created
    /\ run_state' = "none"
    /\ retries' = 0
    /\ last_run' = NoRun
    /\ UNCHANGED <<context, use_local_secrets>>
    /\ UNCHANGED execVars

ConstructSecretBase ==
    \E args \in ArgLists, kwargs \in KwargsValues :
        Construct("SecretBase", args, kwargs, CallSecretBase(ntasks + 1, args, kwargs))

ConstructPrefectSecret ==
    \E args \in ArgLists, kwargs \in KwargsValues :
        Construct("PrefectSecret", args, kwargs,
                  CallPrefectSecret(ntasks + 1, args, kwargs))

ConstructSecret ==
    \E args \in ArgLists, kwargs \in KwargsValues :
        Construct("Secret", args, kwargs, SecretInit(ntasks + 1, args, kwargs))

(***************************************************************************)
(* Running a PrefectSecret.  The secret client (prefect.client.secrets)    *)
(* and the task runner's retry bookkeeping are collaborators of this file; *)
(* they are modelled from their documented contracts.                      *)
(***************************************************************************)
StoreReplies == {"value", "NotFound", "Unreachable"}
RunNames == Names \cup {None}

\* _Secret(name).get(): the context first; without a value there, an error in
\* local-secrets mode and a query of the store otherwise.  `store` is what the
\* store would reply.
SecretGet(name, store) ==
    IF name \in DOMAIN context
    THEN [name |-> name, outcome |-> "returned", value |-> context[name],
          queried |-> FALSE]
    ELSE IF use_local_secrets
    THEN [name |-> name, outcome |-> "ValueError", value |-> None, queried |-> FALSE]
    ELSE IF store = "value"
    THEN [name |-> name, outcome |-> "returned", value |-> "from store",
          queried |-> TRUE]
    ELSE [name |-> name, outcome |-> store, value |-> None, queried |-> TRUE]

\* PrefectSecret.run asking the store itself instead of going through Secret.get
run_QueriesStore(self, name, store) ==
    LET n == IF name = None THEN self.super_kwargs["name"] ELSE name
    IN IF store = "value"
       THEN [name |-> n, outcome |-> "returned", value |-> "from store",
             queried |-> TRUE]
       ELSE [name |-> n, outcome |-> store, value |-> None, queried |-> TRUE]

\* PrefectSecret.run(self, name=None), lines 55-70; defaults_from_attrs("name")
\* puts self.name in the place of a name that is None
run(self, name, store) ==
    SecretGet(IF name = None THEN self.super_kwargs["name"] ELSE name, store)

\* the retry budget the runner reads from the task: Task.max_retries
Budget(t) ==
    IF "max_retries" \in DOMAIN t.super_kwargs THEN t.super_kwargs["max_retries"] ELSE 0

Runnable ==
    /\ task.cls \in {"PrefectSecret", "Secret"}
    /\ task.exc = None
    /\ task.task_init

\* the runner starts a run of the task
StartRun ==
    /\ Runnable
    /\ run_state = "none"
    /\ run_state' = "Running"
    /\ UNCHANGED <<call, task, ntasks, handlers, context, use_local_secrets,
                   retries, last_run>>
    /\ UNCHANGED execVars

\* one attempt: the runner calls task.run; a returned value ends the run in
\* Success, an exception in Retrying while retries remain and in Failed after
RunAttempt ==
    /\ run_state = "Running"
    /\ \E name \in RunNames, store \in StoreReplies :
         LET r == run(task, name, store)
         IN /\ last_run' = r
            /\ \/ /\ r.outcome = "returned"
                  /\ run_state' = "Success"
                  /\ retries' = retries
               \/ /\ r.outcome # "returned"
                  /\ retries < Budget(task)
                  /\ run_state' = "Retrying"
                  /\ retries' = retries + 1
               \/ /\ r.outcome # "returned"
                  /\ retries >= Budget(task)
                  /\ run_state' = "Failed"
                  /\ retries' = retries
    /\ UNCHANGED <<call, task, ntasks, handlers, context, use_local_secrets>>
    /\ UNCHANGED execVars

\* the retry delay has passed: the runner runs the task again
Retry ==
    /\ run_state = "Retrying"
    /\ run_state' = "Running"
    /\ UNCHANGED <<call, task, ntasks, handlers, context, use_local_secrets,
                   retries, last_run>>
    /\ UNCHANGED execVars

Contexts == UNION {[S -> {"from context"}] : S \in SUBSET {"a"}}

SecretInit0 ==
    /\ call = NoCall
    /\ task = NoTask
    /\ ntasks = 0
    /\ handlers = {}
    /\ context \in Contexts
    /\ use_local_secrets \in BOOLEAN
    /\ run_state = "none"
    /\ retries = 0
    /\ last_run = NoRun
    /\ ExecutorsAtRest

SecretNext ==
    \/ ConstructSecretBase
    \/ ConstructPrefectSecret
    \/ ConstructSecret
    \/ StartRun
    \/ RunAttempt
    \/ Retry

SecretSpec == SecretInit0 /\ [][SecretNext]_vars

(***************************************************************************)
(* Properties of the secret tasks.                                         *)
(***************************************************************************)
Constructed == task.cls # "none" /\ task.exc = None

\* the value the constructor call binds to the parameter `name`
BoundName == IF call.args # <<>> THEN call.args[1] ELSE call.kwargs["name"]

\* C2: a constructor call of a secret task that passes a result_handler
\* keyword, whatever its value, raises ValueError.
C2_ResultHandlerKeywordRejected ==
    (call.cls # "none" /\ "result_handler" \in DOMAIN call.kwargs /\ task.exc # "TypeError")
        => task.exc = "ValueError"

\* C3: every secret task that was constructed handed Task.__init__ the
\* SecretResultHandler created for it and bound to it, never the value of the
\* caller and never a handler bound to another task.
C3_HandlerIsOwnSecretResultHandler ==
    Constructed =>
        /\ task.task_init
        /\ "result_handler" \in DOMAIN task.super_kwargs
        /\ task.super_kwargs["result_handler"] = SecretResultHandler(task.id)
        /\ task.created = {SecretResultHandler(task.id)}
        /\ SecretResultHandler(task.id) \in handlers
        /\ \A h \in handlers : h.secret_task \in 1..ntasks

C3_Witness ==
    /\ Constructed
    /\ task.id = MaxTasks
    /\ "result_handler" \in DOMAIN call.kwargs
    /\ SecretResultHandler(1) \in handlers

\* C6: a PrefectSecret constructed without max_retries and retry_delay hands
\* Task.__init__ max_retries = 2 and retry_delay = 1 second; a value the caller
\* gives for either is handed on unchanged; name is the name parameter.
C6_RetryDefaults ==
    (Constructed /\ task.cls \in {"PrefectSecret", "Secret"}) =>
        /\ task.super_kwargs["max_retries"] =
               IF "max_retries" \in DOMAIN call.kwargs
               THEN call.kwargs["max_retries"] ELSE 2
        /\ task.super_kwargs["retry_delay"] =
               IF "retry_delay" \in DOMAIN call.kwargs
               THEN call.kwargs["retry_delay"] ELSE 1
        /\ task.super_kwargs["name"] = BoundName

C6_Witness ==
    /\ Constructed
    /\ task.cls = "PrefectSecret"
    /\ call.kwargs = ("max_retries" :> MaxRetries)
    /\ task.super_kwargs["max_retries"] = MaxRetries
    /\ task.super_kwargs["retry_delay"] = 1

\* C10 as stated: a constructor that rejects the caller's result handler has
\* done nothing else before: no handler created, Task.__init__ not invoked,
\* nothing emitted.
C10_RejectionBeforeAnyEffect ==
    (task.cls # "none" /\ task.exc = "ValueError") =>
        /\ task.created = {}
        /\ ~task.task_init
        /\ task.super_kwargs = EmptyDict
        /\ task.warned = <<>>

\* C10 as amended: a constructor that rejects the caller's result handler has
\* created no SecretResultHandler and has not invoked Task.__init__, so the
\* task has no name, retry settings or result handler; all that came before
\* the rejection is the deprecation warning of the Secret alias.
C10_RejectionBeforeTaskEffects ==
    (task.cls # "none" /\ task.exc = "ValueError") =>
        /\ task.created = {}
        /\ SecretResultHandler(task.id) \notin handlers
        /\ ~task.task_init
        /\ task.super_kwargs = EmptyDict
        /\ task.warned = IF task.cls = "Secret" THEN <<DeprecationWarning>> ELSE <<>>

C10_Witness ==
    /\ task.cls = "PrefectSecret"
    /\ task.exc = "ValueError"
    /\ call.kwargs["result_handler"] = JSONResultHandler
    /\ handlers = {}

\* C5: PrefectSecret.run queries the secret store only when the context has no
\* value for the name and local-secrets mode is off; with a value in the
\* context it returns that value, and without one in local-secrets mode it
\* fails, in both cases with no query of the store.
C5_StoreQueriedOnlyAsLastResort ==
    last_run.outcome # "none" =>
        /\ last_run.queried =>
               (last_run.name \notin DOMAIN context /\ ~use_local_secrets)
        /\ last_run.name \in DOMAIN context =>
               /\ last_run.outcome = "returned"
               /\ last_run.value = context[last_run.name]
               /\ ~last_run.queried
        /\ (last_run.name \notin DOMAIN context /\ use_local_secrets) =>
               /\ last_run.outcome = "ValueError"
               /\ ~last_run.queried

C5_Witness ==
    /\ last_run.outcome = "returned"
    /\ last_run.name = "a"
    /\ call.args = <<"a">>
    /\ ~last_run.queried
    /\ ~use_local_secrets

\* C7: a run whose attempts all fail is retried until the retry budget of the
\* task (2 unless the caller configured another) is used up and only then
\* ends in Failed: never Failed while retries remain, never more retries than
\* the budget.
C7_FailedOnlyAfterBudget ==
    /\ retries <= Budget(task)
    /\ run_state = "Failed" => retries = Budget(task)
    /\ run_state = "Retrying" => (retries >= 1 /\ last_run.outcome # "returned")
    /\ (run_state = "Failed" /\ "max_retries" \notin DOMAIN call.kwargs) => retries = 2

C7_Witness ==
    /\ run_state = "Failed"
    /\ "max_retries" \notin DOMAIN call.kwargs
    /\ retries = 2
    /\ last_run.queried
    /\ last_run.outcome = "NotFound"

====
